---- MODULE Spec2Model ----
(***************************************************************************)
(* The overlay key-value dictionary of src/dictionary/kv.rs: a read-only   *)
(* backing store (KVStore), a mutable overlay (btree) and a tombstone set  *)
(* (graveyard), with the merged queries and the mutations on top of them.  *)
(*                                                                         *)
(* Byte strings (Vec<u8>, [u8]) are sequences of naturals below 256.  A    *)
(* str is modelled by its UTF-8 bytes, so that the order of str is the     *)
(* lexicographic order of the bytes, as in Rust.  Option<T> is a sequence  *)
(* of length at most one.                                                  *)
(***************************************************************************)
EXTENDS Integers, Sequences, FiniteSets

VARIABLES store, btree, graveyard, last, removed, nops

\* the phrase selector: the fields of PhraseSelector, the position of the call
\* in progress (pc), the call that awaits a break point (caller), the cursor of
\* the break-point loop, and whether the build checks integer overflow.  begin,
\* end and cursor are usize values, written as decimal numerals (see usize)
VARIABLES begin, end, forward_select, buffer, selections, breaks, dict,
          pc, caller, cursor, overflow_checks

kvvars == <<store, btree, graveyard, last, removed, nops>>

selvars == <<begin, end, forward_select, buffer, selections, breaks, dict,
             pc, caller, cursor, overflow_checks>>

vars == <<kvvars, selvars>>

----------------------------------------------------------------------------
(* Bounds of the model *)

\* frequencies given to add_phrase and update_phrase are 1..MaxFreq
MaxFreq == 2
\* timestamps given to add_phrase and update_phrase are 0..MaxTime
MaxTime == 1
\* number of operations performed on one dictionary
MaxOps == 3
\* the values of `first` given to lookup_first_n_phrases are 0..MaxFirst
MaxFirst == 3

----------------------------------------------------------------------------
(* Option, and orderings *)

None == <<>>
Some(x) == <<x>>

unwrap_or_default(o) == IF o = None THEN 0 ELSE o[1]

SetMin(S) == CHOOSE x \in S : \A y \in S : x <= y

\* Ord of integers: -1 Less, 0 Equal, 1 Greater
IntCmp(a, b) == IF a < b THEN -1 ELSE IF a = b THEN 0 ELSE 1

\* Ord of [u8] and of str: lexicographic on the bytes, a proper prefix is less
BytesCmp(a, b) ==
    LET n == IF Len(a) < Len(b) THEN Len(a) ELSE Len(b)
        diff == {i \in 1..n : a[i] # b[i]}
    IN  IF diff = {} THEN IntCmp(Len(a), Len(b))
        ELSE IntCmp(a[SetMin(diff)], b[SetMin(diff)])

\* Ord of PhraseKey, a pair (syllable bytes, text): first component first
PhraseKeyCmp(x, y) ==
    IF BytesCmp(x[1], y[1]) # 0 THEN BytesCmp(x[1], y[1]) ELSE BytesCmp(x[2], y[2])

\* Ord of Option<u64>: None is less than every Some
OptionCmp(a, b) ==
    IF a = None THEN (IF b = None THEN 0 ELSE -1)
    ELSE IF b = None THEN 1 ELSE IntCmp(a[1], b[1])

----------------------------------------------------------------------------
(* The record codec: PhraseData *)

\* str::from_utf8(bytes).is_ok(): the well-formed UTF-8 byte sequences
RECURSIVE Utf8Valid(_)
Utf8Valid(s) ==
    IF s = <<>> THEN TRUE
    ELSE LET b == s[1]
             n == Len(s)
             Cont(i) == i <= n /\ s[i] >= 128 /\ s[i] <= 191
             Rest(k) == Utf8Valid(SubSeq(s, k + 1, n))
         IN  IF b <= 127 THEN Rest(1)
             ELSE IF b >= 194 /\ b <= 223 THEN Cont(2) /\ Rest(2)
             ELSE IF b = 224 THEN Cont(2) /\ s[2] >= 160 /\ Cont(3) /\ Rest(3)
             ELSE IF b = 237 THEN Cont(2) /\ s[2] <= 159 /\ Cont(3) /\ Rest(3)
             ELSE IF b >= 225 /\ b <= 239 THEN Cont(2) /\ Cont(3) /\ Rest(3)
             ELSE IF b = 240 THEN Cont(2) /\ s[2] >= 144 /\ Cont(3) /\ Cont(4) /\ Rest(4)
             ELSE IF b >= 241 /\ b <= 243 THEN Cont(2) /\ Cont(3) /\ Cont(4) /\ Rest(4)
             ELSE IF b = 244 THEN Cont(2) /\ s[2] <= 143 /\ Cont(3) /\ Cont(4) /\ Rest(4)
             ELSE FALSE

\* u32::from_le_bytes / u64::from_le_bytes
RECURSIVE from_le_bytes(_)
from_le_bytes(s) ==
    IF s = <<>> THEN 0 ELSE s[1] + 256 * from_le_bytes(Tail(s))

\* PhraseData::len
len(pd) == 13 + pd[13]

\* the bytes PhraseData::phrase_str hands to str::from_utf8
phrase_str(pd) == SubSeq(pd, 14, 13 + pd[13])

\* is_valid as it would be if it did not look at the text
is_valid_any_text(pd) ==
    /\ Len(pd) > 12
    /\ len(pd) <= Len(pd)

\* PhraseData::is_valid
is_valid(pd) ==
    /\ Len(pd) > 12
    /\ len(pd) <= Len(pd)
    /\ Utf8Valid(phrase_str(pd))

\* PhraseData::frequency
frequency(pd) == from_le_bytes(SubSeq(pd, 1, 4))

\* PhraseData::last_used
last_used(pd) == from_le_bytes(SubSeq(pd, 5, 12))

\* impl From<PhraseData> for Phrase
PhraseFrom(pd) ==
    [phrase |-> phrase_str(pd), freq |-> frequency(pd), last_used |-> Some(last_used(pd))]

\* Phrase::as_str
as_str(p) == p.phrase

----------------------------------------------------------------------------
(* Inputs: syllable keys, texts, and the stub backing stores *)

\* to_le_bytes of a small number on w bytes
RECURSIVE to_le_bytes(_, _)
to_le_bytes(x, w) ==
    IF w = 0 THEN <<>> ELSE <<x % 256>> \o to_le_bytes(x \div 256, w - 1)

\* a record of the backing store in the layout PhraseData reads
Record(f, t, text) ==
    to_le_bytes(f, 4) \o to_le_bytes(t, 8) \o <<Len(text)>> \o text

MIN_PHRASE == <<>>
\* "\u{10FFFF}" in UTF-8
MAX_PHRASE == <<244, 143, 191, 191>>

\* the reserved key b"INFO"
INFO == <<73, 78, 70, 79>>

\* two syllable sequences of one syllable each, as SyllableSlice::get_bytes gives them
SylA == <<10, 0>>
SylB == <<90, 0>>
SylKeys == {SylA, SylB}

\* the texts "", "a" and "\u{10FFFF}"
TxtEmpty == <<>>
TxtA == <<97>>
TxtMax == <<244, 143, 191, 191>>
Texts == {TxtEmpty, TxtA, TxtMax}

PhraseKeys == SylKeys \X Texts

\* malformed records: too short, a declared length beyond the slice, invalid UTF-8
BadShort == to_le_bytes(1, 4) \o to_le_bytes(1, 8)
BadLen == to_le_bytes(1, 4) \o to_le_bytes(1, 8) \o <<2>> \o TxtA
BadUtf8 == to_le_bytes(1, 4) \o to_le_bytes(1, 8) \o <<1>> \o <<255>>

\* the store (): KVStore for (), which finds and iterates nothing
UnitStore == <<>>

\* stub stores, each ascending by (key, decoded text) as KVStore::iter requires
StoreOne ==
    << <<SylA, Record(2, 1, TxtEmpty)>>,
       <<SylA, BadUtf8>>,
       <<SylA, Record(1, 1, TxtA)>>,
       <<INFO, Record(1, 1, TxtA)>>,
       <<SylB, BadShort>>,
       <<SylB, Record(2, 0, TxtA)>> >>

StoreTwo ==
    << <<SylA, Record(1, 0, TxtA)>>,
       <<SylA, Record(2, 1, TxtMax)>>,
       <<INFO, BadLen>>,
       <<SylB, Record(1, 1, TxtEmpty)>>,
       <<SylB, BadLen>> >>

Stores == {UnitStore, StoreOne, StoreTwo}

\* KVStore::find: the values stored under exactly this key
RECURSIVE find(_, _)
find(s, key) ==
    IF s = <<>> THEN <<>>
    ELSE (IF s[1][1] = key THEN <<s[1][2]>> ELSE <<>>) \o find(Tail(s), key)

\* KVStore::iter
iter(s) == s

----------------------------------------------------------------------------
(* Queries.  st is the store field (None or Some(a store)), bt the overlay *)
(* map and gy the tombstone set.                                           *)

\* the valid records of a sequence of raw values, decoded, in order
RECURSIVE DecodeValues(_)
DecodeValues(vs) ==
    IF vs = <<>> THEN <<>>
    ELSE (IF is_valid(vs[1]) THEN <<PhraseFrom(vs[1])>> ELSE <<>>) \o DecodeValues(Tail(vs))

\* the keys of a set of phrase keys in ascending order, as BTreeMap iterates
RECURSIVE Ascending(_)
Ascending(S) ==
    IF S = {} THEN <<>>
    ELSE LET m == CHOOSE x \in S : \A y \in S : PhraseKeyCmp(x, y) <= 0
         IN  <<m>> \o Ascending(S \ {m})

\* BTreeMap::range(min_key..max_key): the keys k with min_key <= k < max_key
BTreeRange(bt, min_key, max_key) ==
    Ascending({k \in DOMAIN bt : PhraseKeyCmp(min_key, k) <= 0 /\ PhraseKeyCmp(k, max_key) < 0})

\* the overlay entry of key k as a Phrase
BTreePhrase(bt, k) ==
    [phrase |-> k[2], freq |-> bt[k][1], last_used |-> Some(bt[k][2])]

RECURSIVE FilterWithKey(_, _, _)
FilterWithKey(ps, gy, key) ==
    IF ps = <<>> THEN <<>>
    ELSE (IF <<key, as_str(ps[1])>> \in gy THEN <<>> ELSE <<ps[1]>>)
         \o FilterWithKey(Tail(ps), gy, key)

\* KVDictionary::entries_iter_for
entries_iter_for(st, bt, gy, syllable_bytes) ==
    LET min_key == <<syllable_bytes, MIN_PHRASE>>
        max_key == <<syllable_bytes, MAX_PHRASE>>
        store_iter == IF st = None THEN <<>>
                      ELSE DecodeValues(find(st[1], syllable_bytes))
        keys == BTreeRange(bt, min_key, max_key)
        btree_iter == [i \in 1..Len(keys) |-> BTreePhrase(bt, keys[i])]
    IN  FilterWithKey(store_iter \o btree_iter, gy, syllable_bytes)

\* StoreEntries as it would be without .filter(|it| it.0 != b"INFO")
RECURSIVE StoreEntriesWithInfo(_)
StoreEntriesWithInfo(kvs) ==
    IF kvs = <<>> THEN <<>>
    ELSE (IF is_valid(kvs[1][2])
          THEN << <<kvs[1][1], PhraseFrom(kvs[1][2])>> >> ELSE <<>>)
         \o StoreEntriesWithInfo(Tail(kvs))

\* the store half of entries_iter: no INFO key, no invalid record
RECURSIVE StoreEntries(_)
StoreEntries(kvs) ==
    IF kvs = <<>> THEN <<>>
    ELSE (IF kvs[1][1] # INFO /\ is_valid(kvs[1][2])
          THEN << <<kvs[1][1], PhraseFrom(kvs[1][2])>> >> ELSE <<>>)
         \o StoreEntries(Tail(kvs))

\* Merge as it would be if the store's entry won on equal frequencies
RECURSIVE MergeStoreWinsTies(_, _)
MergeStoreWinsTies(a, b) ==
    IF a = <<>> /\ b = <<>> THEN <<>>
    ELSE IF a = <<>> THEN <<b[1]>> \o MergeStoreWinsTies(a, Tail(b))
    ELSE IF b = <<>> THEN <<a[1]>> \o MergeStoreWinsTies(Tail(a), b)
    ELSE LET x == a[1]
             y == b[1]
             c == PhraseKeyCmp(<<x[1], as_str(x[2])>>, <<y[1], as_str(y[2])>>)
         IN  IF c < 0 THEN <<x>> \o MergeStoreWinsTies(Tail(a), b)
             ELSE IF c > 0 THEN <<y>> \o MergeStoreWinsTies(a, Tail(b))
             ELSE IF IntCmp(x[2].freq, y[2].freq) < 0
                  THEN <<y>> \o MergeStoreWinsTies(Tail(a), Tail(b))
                  ELSE <<x>> \o MergeStoreWinsTies(Tail(a), Tail(b))

\* Merge as it would be if Ordering::Greater advanced the store's stream
RECURSIVE MergeWrongSide(_, _)
MergeWrongSide(a, b) ==
    IF a = <<>> /\ b = <<>> THEN <<>>
    ELSE IF a = <<>> THEN <<b[1]>> \o MergeWrongSide(a, Tail(b))
    ELSE IF b = <<>> THEN <<a[1]>> \o MergeWrongSide(Tail(a), b)
    ELSE LET x == a[1]
             y == b[1]
             c == PhraseKeyCmp(<<x[1], as_str(x[2])>>, <<y[1], as_str(y[2])>>)
         IN  IF c < 0 THEN <<x>> \o MergeWrongSide(Tail(a), b)
             ELSE IF c > 0 THEN <<x>> \o MergeWrongSide(Tail(a), b)
             ELSE IF IntCmp(x[2].freq, y[2].freq) <= 0
                  THEN <<y>> \o MergeWrongSide(Tail(a), Tail(b))
                  ELSE <<x>> \o MergeWrongSide(Tail(a), Tail(b))

\* the closure of iter::from_fn in entries_iter, run to the end: a is the
\* rest of store_iter, b the rest of btree_iter
RECURSIVE Merge(_, _)
Merge(a, b) ==
    IF a = <<>> /\ b = <<>> THEN <<>>
    ELSE IF a = <<>> THEN <<b[1]>> \o Merge(a, Tail(b))
    ELSE IF b = <<>> THEN <<a[1]>> \o Merge(Tail(a), b)
    ELSE LET x == a[1]
             y == b[1]
             c == PhraseKeyCmp(<<x[1], as_str(x[2])>>, <<y[1], as_str(y[2])>>)
         IN  IF c < 0 THEN <<x>> \o Merge(Tail(a), b)
             ELSE IF c > 0 THEN <<y>> \o Merge(a, Tail(b))
             ELSE IF IntCmp(x[2].freq, y[2].freq) <= 0
                  THEN <<y>> \o Merge(Tail(a), Tail(b))
                  ELSE <<x>> \o Merge(Tail(a), Tail(b))

RECURSIVE FilterEntries(_, _)
FilterEntries(es, gy) ==
    IF es = <<>> THEN <<>>
    ELSE (IF <<es[1][1], as_str(es[1][2])>> \in gy THEN <<>> ELSE <<es[1]>>)
         \o FilterEntries(Tail(es), gy)

\* KVDictionary::entries_iter
entries_iter(st, bt, gy) ==
    LET store_iter == IF st = None THEN <<>> ELSE StoreEntries(iter(st[1]))
        keys == Ascending(DOMAIN bt)
        btree_iter == [i \in 1..Len(keys) |-> <<keys[i][1], BTreePhrase(bt, keys[i])>>]
    IN  FilterEntries(Merge(store_iter, btree_iter), gy)

\* Ord of Phrase where the text is the same: frequency, then last-used
PhraseCmp(p, q) ==
    IF IntCmp(p.freq, q.freq) # 0 THEN IntCmp(p.freq, q.freq)
    ELSE OptionCmp(p.last_used, q.last_used)

\* cmp::max(v1, v2): v1 only when it is greater
cmp_max(v1, v2) == IF PhraseCmp(v1, v2) > 0 THEN v1 ELSE v2

\* Dedup as it would be if a repeated text kept the entry seen first
RECURSIVE DedupKeepFirst(_, _)
DedupKeepFirst(rest, phrases) ==
    IF rest = <<>> THEN phrases
    ELSE LET phrase == rest[1]
             occupied == {i \in 1..Len(phrases) : as_str(phrases[i]) = as_str(phrase)}
         IN  IF occupied # {}
             THEN DedupKeepFirst(Tail(rest), phrases)
             ELSE DedupKeepFirst(Tail(rest), Append(phrases, phrase))

\* the loop of lookup_first_n_phrases: rest is what the stream still holds,
\* phrases the vector so far (sort_map maps a text to its index in phrases)
RECURSIVE Dedup(_, _)
Dedup(rest, phrases) ==
    IF rest = <<>> THEN phrases
    ELSE LET phrase == rest[1]
             occupied == {i \in 1..Len(phrases) : as_str(phrases[i]) = as_str(phrase)}
         IN  IF occupied # {}
             THEN LET index == SetMin(occupied)
                  IN  Dedup(Tail(rest), [phrases EXCEPT ![index] = cmp_max(phrase, phrases[index])])
             ELSE Dedup(Tail(rest), Append(phrases, phrase))

\* Vec::truncate
truncate(v, n) == IF n < Len(v) THEN SubSeq(v, 1, n) ELSE v

\* KVDictionary::lookup_first_n_phrases
lookup_first_n_phrases(st, bt, gy, syllable_bytes, first) ==
    truncate(Dedup(entries_iter_for(st, bt, gy, syllable_bytes), <<>>), first)

\* Syllable::default(); a Syllable is written as its u16 code
Syllable_default == 0

\* the u16 codes of the syllable keys
SylCodes == {from_le_bytes(k) : k \in SylKeys}

\* Syllable::try_from(u16) is not in this source: rejects is the set of codes
\* it rejects, and every set of codes of the syllable keys is taken
RejectTables == SUBSET SylCodes

\* Syllable::try_from(syl_u16)
Syllable_try_from(syl_u16, rejects) ==
    IF syl_u16 \in rejects THEN None ELSE Some(syl_u16)

\* Result::unwrap_or_default on the result of Syllable::try_from
syllable_unwrap_or_default(r) == IF r = None THEN Syllable_default ELSE r[1]

\* phrase_from_bytes: every whole 2-byte chunk read as a little-endian u16 and
\* made a Syllable, Syllable::default() where try_from rejects the code
RECURSIVE phrase_from_bytes(_, _)
phrase_from_bytes(bytes, rejects) ==
    IF Len(bytes) < 2 THEN <<>>
    ELSE <<syllable_unwrap_or_default(
               Syllable_try_from(from_le_bytes(SubSeq(bytes, 1, 2)), rejects))>>
         \o phrase_from_bytes(SubSeq(bytes, 3, Len(bytes)), rejects)

\* .map(|it| (phrase_from_bytes(&it.0), it.1)) over the entries of entries_iter
entries_map(es, rejects) ==
    [i \in 1..Len(es) |-> <<phrase_from_bytes(es[i][1], rejects), es[i][2]>>]

\* KVDictionary::entries
entries(st, bt, gy, rejects) == entries_map(entries_iter(st, bt, gy), rejects)

----------------------------------------------------------------------------
(* The dictionary: construction, rebinding and mutation *)

\* the Phrase values a caller hands to add_phrase and update_phrase
Freqs == 1..MaxFreq
Times == 0..MaxTime
Phrases ==
    [phrase : Texts, freq : Freqs, last_used : {None} \cup {Some(t) : t \in Times}]

\* what the previous operation was, was given and returned
Last(op, key, text, freq, time, ok) ==
    [op |-> op, key |-> key, text |-> text, freq |-> freq, time |-> time, ok |-> ok]

\* BTreeMap::new
EmptyMap == [k \in {} |-> <<0, 0>>]

\* BTreeMap::insert as it would be if it kept the value of a key it holds
BTreeInsertKeepOld(bt, k, v) ==
    [x \in DOMAIN bt \cup {k} |-> IF x \in DOMAIN bt THEN bt[x] ELSE v]

\* BTreeMap::insert: the key is added, or its value replaced
BTreeInsert(bt, k, v) ==
    [x \in DOMAIN bt \cup {k} |-> IF x = k THEN v ELSE bt[x]]

\* BTreeMap::remove as it would be if it compared the text of the key only
BTreeRemoveText(bt, k) ==
    [x \in {y \in DOMAIN bt : y[2] # k[2]} |-> bt[x]]

\* BTreeMap::remove: nothing happens when the key is absent
BTreeRemove(bt, k) ==
    [x \in DOMAIN bt \ {k} |-> bt[x]]

\* no phrase selector has been made
NoSelector ==
    /\ begin = <<0>>
    /\ end = <<0>>
    /\ forward_select = TRUE
    /\ buffer = <<>>
    /\ selections = <<>>
    /\ breaks = <<>>
    /\ dict = {}
    /\ pc = "none"
    /\ caller = "none"
    /\ cursor = <<0>>
    /\ overflow_checks = TRUE

\* KVDictionary::new(store) and KVDictionary::new_in_memory()
Init ==
    /\ NoSelector
    /\ store \in {None} \cup {Some(s) : s \in Stores}
    /\ btree = EmptyMap
    /\ graveyard = {}
    /\ last = Last("new", <<>>, <<>>, 0, None, TRUE)
    /\ removed = {}
    /\ nops = 0

\* the duplicate check of add_phrase: .any(|ph| ph.as_str() == phrase.as_str())
IsDuplicate(st, bt, gy, syllable_bytes, phrase) ==
    LET it == entries_iter_for(st, bt, gy, syllable_bytes)
    IN  \E i \in 1..Len(it) : as_str(it[i]) = as_str(phrase)

\* add_phrase as it would be if it cleared the tombstone of the key it adds
add_phrase_untombstone(syllable_bytes, phrase) ==
    /\ nops < MaxOps
    /\ IF IsDuplicate(store, btree, graveyard, syllable_bytes, phrase)
       THEN /\ btree' = btree
            /\ graveyard' = graveyard
            /\ last' = Last("add_phrase", syllable_bytes, phrase.phrase, phrase.freq,
                            phrase.last_used, FALSE)
       ELSE /\ btree' = BTreeInsert(btree, <<syllable_bytes, phrase.phrase>>,
                                    <<phrase.freq, unwrap_or_default(phrase.last_used)>>)
            /\ graveyard' = graveyard \ {<<syllable_bytes, phrase.phrase>>}
            /\ last' = Last("add_phrase", syllable_bytes, phrase.phrase, phrase.freq,
                            phrase.last_used, TRUE)
    /\ nops' = nops + 1
    /\ UNCHANGED <<store, removed, selvars>>

\* KVDictionary::add_phrase
add_phrase(syllable_bytes, phrase) ==
    /\ nops < MaxOps
    /\ IF IsDuplicate(store, btree, graveyard, syllable_bytes, phrase)
       THEN /\ btree' = btree
            /\ last' = Last("add_phrase", syllable_bytes, phrase.phrase, phrase.freq,
                            phrase.last_used, FALSE)
       ELSE /\ btree' = BTreeInsert(btree, <<syllable_bytes, phrase.phrase>>,
                                    <<phrase.freq, unwrap_or_default(phrase.last_used)>>)
            /\ last' = Last("add_phrase", syllable_bytes, phrase.phrase, phrase.freq,
                            phrase.last_used, TRUE)
    /\ nops' = nops + 1
    /\ UNCHANGED <<store, graveyard, removed, selvars>>

\* update_phrase as it would be if it wrote the new value through to the store
update_phrase_write_through(syllable_bytes, phrase, user_freq, time) ==
    /\ nops < MaxOps
    /\ btree' = BTreeInsert(btree, <<syllable_bytes, phrase.phrase>>, <<user_freq, time>>)
    /\ store' = IF store = None THEN None
                ELSE Some([i \in 1..Len(store[1]) |->
                        IF /\ store[1][i][1] = syllable_bytes
                           /\ is_valid(store[1][i][2])
                           /\ phrase_str(store[1][i][2]) = phrase.phrase
                        THEN <<syllable_bytes, Record(user_freq, time, phrase.phrase)>>
                        ELSE store[1][i]])
    /\ last' = Last("update_phrase", syllable_bytes, phrase.phrase, user_freq, Some(time), TRUE)
    /\ nops' = nops + 1
    /\ UNCHANGED <<graveyard, removed, selvars>>

\* update_phrase as it would be if it cleared the tombstone of its key
update_phrase_untombstone(syllable_bytes, phrase, user_freq, time) ==
    /\ nops < MaxOps
    /\ btree' = BTreeInsert(btree, <<syllable_bytes, phrase.phrase>>, <<user_freq, time>>)
    /\ graveyard' = graveyard \ {<<syllable_bytes, phrase.phrase>>}
    /\ last' = Last("update_phrase", syllable_bytes, phrase.phrase, user_freq, Some(time), TRUE)
    /\ nops' = nops + 1
    /\ UNCHANGED <<store, removed, selvars>>

\* KVDictionary::update_phrase
update_phrase(syllable_bytes, phrase, user_freq, time) ==
    /\ nops < MaxOps
    /\ btree' = BTreeInsert(btree, <<syllable_bytes, phrase.phrase>>, <<user_freq, time>>)
    /\ last' = Last("update_phrase", syllable_bytes, phrase.phrase, user_freq, Some(time), TRUE)
    /\ nops' = nops + 1
    /\ UNCHANGED <<store, graveyard, removed, selvars>>

\* remove_phrase as it would be if it tombstoned only what the overlay held
remove_phrase_overlay_only(syllable_bytes, phrase_str_) ==
    /\ nops < MaxOps
    /\ btree' = BTreeRemove(btree, <<syllable_bytes, phrase_str_>>)
    /\ graveyard' = IF <<syllable_bytes, phrase_str_>> \in DOMAIN btree
                    THEN graveyard \cup {<<syllable_bytes, phrase_str_>>}
                    ELSE graveyard
    /\ removed' = removed \cup {<<syllable_bytes, phrase_str_>>}
    /\ last' = Last("remove_phrase", syllable_bytes, phrase_str_, 0, None, TRUE)
    /\ nops' = nops + 1
    /\ UNCHANGED <<store, selvars>>

\* KVDictionary::remove_phrase
remove_phrase(syllable_bytes, phrase_str_) ==
    /\ nops < MaxOps
    /\ btree' = BTreeRemove(btree, <<syllable_bytes, phrase_str_>>)
    /\ graveyard' = graveyard \cup {<<syllable_bytes, phrase_str_>>}
    /\ removed' = removed \cup {<<syllable_bytes, phrase_str_>>}
    /\ last' = Last("remove_phrase", syllable_bytes, phrase_str_, 0, None, TRUE)
    /\ nops' = nops + 1
    /\ UNCHANGED <<store, selvars>>

\* take as it would be if it took the overlay and the tombstones along
take_everything ==
    /\ nops < MaxOps
    /\ store' = None
    /\ btree' = EmptyMap
    /\ graveyard' = {}
    /\ last' = Last("take", <<>>, <<>>, 0, None, TRUE)
    /\ nops' = nops + 1
    /\ UNCHANGED <<removed, selvars>>

\* KVDictionary::take
take ==
    /\ nops < MaxOps
    /\ store' = None
    /\ last' = Last("take", <<>>, <<>>, 0, None, TRUE)
    /\ nops' = nops + 1
    /\ UNCHANGED <<btree, graveyard, removed, selvars>>

\* KVDictionary::set
set(s) ==
    /\ nops < MaxOps
    /\ store' = Some(s)
    /\ last' = Last("set", <<>>, <<>>, 0, None, TRUE)
    /\ nops' = nops + 1
    /\ UNCHANGED <<btree, graveyard, removed, selvars>>

\* KVDictionary::from_raw_parts(s, other), where other is this dictionary:
\* a KVDictionary<()>, whose store is absent or ()
from_raw_parts(s) ==
    /\ nops < MaxOps
    /\ store \in {None, Some(UnitStore)}
    /\ store' = Some(s)
    /\ last' = Last("from_raw_parts", <<>>, <<>>, 0, None, TRUE)
    /\ nops' = nops + 1
    /\ UNCHANGED <<btree, graveyard, removed, selvars>>

\* Dictionary::reopen for KVDictionary<()>
reopen ==
    /\ nops < MaxOps
    /\ store \in {None, Some(UnitStore)}
    /\ last' = Last("reopen", <<>>, <<>>, 0, None, TRUE)
    /\ nops' = nops + 1
    /\ UNCHANGED <<store, btree, graveyard, removed, selvars>>

\* Dictionary::flush for KVDictionary<()>
flush ==
    /\ nops < MaxOps
    /\ store \in {None, Some(UnitStore)}
    /\ last' = Last("flush", <<>>, <<>>, 0, None, TRUE)
    /\ nops' = nops + 1
    /\ UNCHANGED <<store, btree, graveyard, removed, selvars>>

AddStep == \E k \in SylKeys, p \in Phrases : add_phrase(k, p)
\* update_phrase reads phrase.as_str() only: the phrase's own frequency and
\* last-used time are fixed here, user_freq and time carry the new values
UpdateStep == \E k \in SylKeys, x \in Texts, f \in Freqs, t \in Times :
                  update_phrase(k, [phrase |-> x, freq |-> 1, last_used |-> None], f, t)
RemoveStep == \E k \in SylKeys, t \in Texts : remove_phrase(k, t)
SetStep == \E s \in Stores : set(s)
FromRawPartsStep == \E s \in Stores : from_raw_parts(s)

Next ==
    \/ AddStep
    \/ UpdateStep
    \/ RemoveStep
    \/ take
    \/ SetStep
    \/ FromRawPartsStep
    \/ reopen
    \/ flush

Spec == Init /\ [][Next]_vars

----------------------------------------------------------------------------
(* What the claims speak of, stated on the data and not on the queries *)

\* the phrase keys of the valid records of the attached store, INFO apart
StoreKeyPhrases(st) ==
    IF st = None THEN {}
    ELSE {<<st[1][i][1], PhraseFrom(st[1][i][2])>> :
              i \in {j \in 1..Len(st[1]) : st[1][j][1] # INFO /\ is_valid(st[1][j][2])}}

\* the valid records the attached store holds under exactly this key
StoreFound(st, key) ==
    IF st = None THEN {}
    ELSE {PhraseFrom(st[1][i][2]) :
              i \in {j \in 1..Len(st[1]) : st[1][j][1] = key /\ is_valid(st[1][j][2])}}

\* the texts that match key in the store or the overlay and are not tombstoned
MatchingTexts(st, bt, gy, key) ==
    ({p.phrase : p \in StoreFound(st, key)} \cup {k[2] : k \in {x \in DOMAIN bt : x[1] = key}})
        \ {k[2] : k \in {x \in gy : x[1] = key}}

\* a value of `first` that truncates nothing
AllFirst == Cardinality(Texts)

\* how many entries of a lookup result carry this text
CountText(r, text) == Cardinality({i \in 1..Len(r) : as_str(r[i]) = text})

\* the entries es of entries(), each with the key bytes of the entry of
\* entries_iter (it) it was made from: two keys may show the same syllables
Keyed(it, es) ==
    [i \in 1..Len(es) |-> [key |-> it[i][1], syllables |-> es[i][1], phrase |-> es[i][2]]]

\* how many entries of entries() were made from this syllable key and carry
\* this text
CountEntry(ks, key, text) ==
    Cardinality({i \in 1..Len(ks) : ks[i].key = key /\ as_str(ks[i].phrase) = text})

\* every entry of entries() shows the syllables of the key it was made from
ShowsKeys(ks, rejects) ==
    \A i \in 1..Len(ks) : ks[i].syllables = phrase_from_bytes(ks[i].key, rejects)

Min(a, b) == IF a < b THEN a ELSE b
Max(a, b) == IF a < b THEN b ELSE a

----------------------------------------------------------------------------
(* C1 *)

\* C1: once remove_phrase(S, t) has been called, no lookup_first_n_phrases(S, n)
\* and no entries() returns an entry of syllable key S and text t, whatever was
\* done since and whatever the store and the overlay hold for (S, t).
C1_TombstoneSuppression ==
    /\ \A k \in removed :
           \A n \in 0..MaxFirst :
               CountText(lookup_first_n_phrases(store, btree, graveyard, k[1], n), k[2]) = 0
    /\ removed # {} =>
           LET it == entries_iter(store, btree, graveyard)
           IN  \A rejects \in RejectTables :
                   LET ks == Keyed(it, entries(store, btree, graveyard, rejects))
                   IN  \A k \in removed : CountEntry(ks, k[1], k[2]) = 0

\* a removed phrase key that the attached store and the overlay both hold
C1_Witness ==
    \E k \in removed :
        /\ k \in DOMAIN btree
        /\ \E e \in StoreKeyPhrases(store) : e[1] = k[1] /\ as_str(e[2]) = k[2]

----------------------------------------------------------------------------
(* C2 *)

\* C2: after add_phrase(S, p) returned Ok, lookup_first_n_phrases(S, n), with n
\* at least the number of matching texts, holds p (its text and its frequency)
\* exactly once.
C2_RoundTrip ==
    (last.op = "add_phrase" /\ last.ok) =>
        \A n \in 0..MaxFirst :
            n >= Cardinality(MatchingTexts(store, btree, graveyard, last.key)) =>
                LET r == lookup_first_n_phrases(store, btree, graveyard, last.key, n)
                IN  Cardinality({i \in 1..Len(r) :
                        as_str(r[i]) = last.text /\ r[i].freq = last.freq}) = 1

----------------------------------------------------------------------------
(* C3 *)

\* the overlay after add_phrase(key, phrase) is called in state (st, bt, gy)
AfterAdd(st, bt, gy, key, phrase) ==
    IF IsDuplicate(st, bt, gy, key, phrase) THEN bt
    ELSE BTreeInsert(bt, <<key, phrase.phrase>>,
                     <<phrase.freq, unwrap_or_default(phrase.last_used)>>)

\* C3: add_phrase having just been called with (S, t), a second call with the
\* same S and t returns an error, and afterwards lookup_first_n_phrases(S, n)
\* and entries() each report exactly one entry for (S, t).
C3_DuplicateRejection ==
    last.op = "add_phrase" =>
        LET p == [phrase |-> last.text, freq |-> last.freq, last_used |-> last.time]
            bt2 == AfterAdd(store, btree, graveyard, last.key, p)
        IN  /\ IsDuplicate(store, btree, graveyard, last.key, p)
            /\ CountText(lookup_first_n_phrases(store, bt2, graveyard, last.key, AllFirst),
                         last.text) = 1
            /\ \A rejects \in RejectTables :
                   CountEntry(Keyed(entries_iter(store, bt2, graveyard),
                                    entries(store, bt2, graveyard, rejects)),
                              last.key, last.text) = 1

----------------------------------------------------------------------------
(* C4 *)

\* the entries of entries_iter that carry phrase key k
EntriesOf(es, k) == {i \in 1..Len(es) : es[i][1] = k[1] /\ as_str(es[i][2]) = k[2]}

\* the phrase keys that the attached store and the overlay both hold and
\* that are not tombstoned
InBoth(st, bt, gy) ==
    {k \in DOMAIN bt \ gy : \E e \in StoreKeyPhrases(st) : e[1] = k[1] /\ as_str(e[2]) = k[2]}

\* the store's phrase for a phrase key it holds
StorePhrase(st, k) ==
    CHOOSE ph \in {e[2] : e \in {x \in StoreKeyPhrases(st) : x[1] = k[1]}} : as_str(ph) = k[2]

\* C4: for a phrase key that is not tombstoned and is in the store with
\* frequency F1 and in the overlay with frequency F2, entries() yields exactly
\* one entry, of frequency max(F1, F2); it carries the overlay's last-used
\* timestamp when F1 = F2 and the store's when F1 > F2.
C4_MergeTieBreak ==
    \A k \in InBoth(store, btree, graveyard) :
        LET es == entries_iter(store, btree, graveyard)
            F1 == StorePhrase(store, k).freq
            F2 == btree[k][1]
        IN  /\ \A rejects \in RejectTables :
                   CountEntry(Keyed(es, entries(store, btree, graveyard, rejects)),
                              k[1], k[2]) = 1
            /\ Cardinality(EntriesOf(es, k)) = 1
            /\ \A i \in EntriesOf(es, k) :
                   /\ es[i][2].freq = Max(F1, F2)
                   /\ F1 = F2 => es[i][2].last_used = Some(btree[k][2])
                   /\ F1 > F2 => es[i][2].last_used = StorePhrase(store, k).last_used

\* a phrase key in both with the same frequency and different timestamps
C4_Witness ==
    \E k \in InBoth(store, btree, graveyard) :
        /\ StorePhrase(store, k).freq = btree[k][1]
        /\ StorePhrase(store, k).last_used # Some(btree[k][2])

----------------------------------------------------------------------------
(* C5 *)

\* C5: entries() yields its phrase keys in strictly ascending order of
\* (syllable-key bytes, phrase text): no key is repeated.
C5_SortOrder ==
    LET es == entries_iter(store, btree, graveyard)
    IN  \A i \in 1..Len(es), j \in 1..Len(es) :
            i < j => PhraseKeyCmp(<<es[i][1], as_str(es[i][2])>>,
                                  <<es[j][1], as_str(es[j][2])>>) < 0

\* an iteration where an overlay entry comes between two store entries
C5_Witness ==
    LET es == entries_iter(store, btree, graveyard)
        OfStore(i) == \E e \in StoreKeyPhrases(store) : e[1] = es[i][1] /\ e[2] = es[i][2]
    IN  \E i \in 1..Len(es) :
            /\ 1 < i /\ i < Len(es)
            /\ OfStore(i - 1) /\ OfStore(i + 1)
            /\ <<es[i][1], as_str(es[i][2])>> \in DOMAIN btree
            /\ ~OfStore(i)

----------------------------------------------------------------------------
(* C6 *)

\* the phrase keys a full iteration has to yield
LiveKeys(st, bt, gy) ==
    (DOMAIN bt \cup {<<e[1], as_str(e[2])>> : e \in StoreKeyPhrases(st)}) \ gy

\* C6: entries() holds exactly one entry for each phrase key that is in the
\* overlay or a valid, non-INFO record of the attached store and is not
\* tombstoned, and no entry for any other phrase key.
C6_Completeness ==
    LET es == entries_iter(store, btree, graveyard)
        live == LiveKeys(store, btree, graveyard)
    IN  /\ {<<es[i][1], as_str(es[i][2])>> : i \in 1..Len(es)} = live
        /\ Len(es) = Cardinality(live)
        /\ \A rejects \in RejectTables :
               LET ks == Keyed(es, entries(store, btree, graveyard, rejects))
               IN  /\ Len(ks) = Cardinality(live)
                   /\ ShowsKeys(ks, rejects)
                   /\ \A k \in live : CountEntry(ks, k[1], k[2]) = 1

\* a store with an INFO record and a malformed one, an overlay-only key, a
\* store-only key and a tombstoned key of the store
C6_Witness ==
    /\ store # None
    /\ \E i \in 1..Len(store[1]) : store[1][i][1] = INFO /\ is_valid(store[1][i][2])
    /\ \E i \in 1..Len(store[1]) : ~is_valid(store[1][i][2])
    /\ \E k \in DOMAIN btree \ graveyard :
           k \notin {<<e[1], as_str(e[2])>> : e \in StoreKeyPhrases(store)}
    /\ \E k \in graveyard : k \in {<<e[1], as_str(e[2])>> : e \in StoreKeyPhrases(store)}
    /\ Len(entries_iter(store, btree, graveyard)) >= 3

----------------------------------------------------------------------------
(* C7 *)

\* C7: lookup_first_n_phrases(S, n) returns exactly min(n, d) entries, d being
\* the number of texts that match S in the store or the overlay and are not
\* tombstoned.
C7_Truncation ==
    \A key \in SylKeys, n \in 0..MaxFirst :
        Len(lookup_first_n_phrases(store, btree, graveyard, key, n))
            = Min(n, Cardinality(MatchingTexts(store, btree, graveyard, key)))

----------------------------------------------------------------------------
(* C8 *)

\* C8: add_phrase(S, p) returns an error exactly when, at the call, an entry
\* of syllable key S and text p.text that is not tombstoned is in the store
\* (a valid record) or in the overlay; otherwise it returns Ok and the overlay
\* maps (S, p.text) to (p.freq, p.last_used or 0).
C8_AddErrorIff ==
    [][(last'.op = "add_phrase" /\ nops' = nops + 1) =>
          LET k == <<last'.key, last'.text>>
              exists == last'.text \in MatchingTexts(store, btree, graveyard, last'.key)
          IN  /\ last'.ok = ~exists
              /\ last'.ok => /\ k \in DOMAIN btree'
                             /\ btree'[k] = <<last'.freq, unwrap_or_default(last'.time)>>
      ]_vars

----------------------------------------------------------------------------
(* C9 *)

\* C9: update_phrase(S, p, f, ts) returns Ok, and afterwards the overlay maps
\* (S, p.text) to exactly (f, ts), wherever the key was before; every other
\* overlay entry and the tombstone set are as they were.
C9_UpdateUpsert ==
    [][(last'.op = "update_phrase" /\ nops' = nops + 1) =>
          LET k == <<last'.key, last'.text>>
          IN  /\ last'.ok
              /\ DOMAIN btree' = DOMAIN btree \cup {k}
              /\ btree'[k] = <<last'.freq, last'.time[1]>>
              /\ \A x \in DOMAIN btree \ {k} : btree'[x] = btree[x]
              /\ graveyard' = graveyard
      ]_vars

\* update_phrase has replaced the overlay value of a key that is tombstoned
\* and that the attached store holds too
C9_Witness ==
    /\ last.op = "update_phrase"
    /\ nops >= 2
    /\ <<last.key, last.text>> \in graveyard
    /\ \E e \in StoreKeyPhrases(store) : e[1] = last.key /\ as_str(e[2]) = last.text
    /\ btree[<<last.key, last.text>>] = <<last.freq, last.time[1]>>
    /\ Cardinality(DOMAIN btree) >= 2

----------------------------------------------------------------------------
(* C10 *)

\* C10: remove_phrase(S, t) returns Ok; afterwards (S, t) is not in the
\* overlay and is in the tombstone set, every other overlay entry and
\* tombstone is as it was, and a second call changes nothing.
C10_RemoveTombstones ==
    [][(last'.op = "remove_phrase" /\ nops' = nops + 1) =>
          LET k == <<last'.key, last'.text>>
          IN  /\ last'.ok
              /\ DOMAIN btree' = DOMAIN btree \ {k}
              /\ \A x \in DOMAIN btree' : btree'[x] = btree[x]
              /\ graveyard' = graveyard \cup {k}
              /\ BTreeRemove(btree', k) = btree'
              /\ graveyard' \cup {k} = graveyard'
      ]_vars

\* remove_phrase has been called on a key that the attached store holds,
\* another key is tombstoned and another entry is in the overlay
C10_Witness ==
    /\ last.op = "remove_phrase"
    /\ <<last.key, last.text>> \in graveyard
    /\ <<last.key, last.text>> \notin DOMAIN btree
    /\ \E e \in StoreKeyPhrases(store) : e[1] = last.key /\ as_str(e[2]) = last.text
    /\ graveyard # {<<last.key, last.text>>}
    /\ DOMAIN btree # {}

----------------------------------------------------------------------------
(* C11 *)

\* C11: no operation of the dictionary takes a key out of the tombstone set;
\* add_phrase on a tombstoned key leaves its tombstone in place.
C11_TombstonesOnlyGrow ==
    [][graveyard \subseteq graveyard']_vars

\* add_phrase has returned Ok for a key that is tombstoned, and it still is
C11_Witness ==
    /\ last.op = "add_phrase"
    /\ last.ok
    /\ <<last.key, last.text>> \in graveyard
    /\ <<last.key, last.text>> \in DOMAIN btree

----------------------------------------------------------------------------
(* C12 *)

\* C12: add_phrase, update_phrase and remove_phrase, whether they succeed or
\* fail, and reopen and flush leave the store and its contents as they were.
C12_StoreNeverWritten ==
    [][(/\ last'.op \in {"add_phrase", "update_phrase", "remove_phrase", "reopen", "flush"}
        /\ nops' = nops + 1)
          => store' = store
      ]_vars

\* update_phrase has given a new value to a key that the attached store holds
\* with another value
C12_Witness ==
    /\ last.op = "update_phrase"
    /\ \E e \in StoreKeyPhrases(store) :
           /\ e[1] = last.key
           /\ as_str(e[2]) = last.text
           /\ e[2].freq # last.freq

----------------------------------------------------------------------------
(* C13 *)

\* what a lookup result holds that is an entry of the overlay
FromOverlay(r, bt, key) ==
    {i \in 1..Len(r) : /\ <<key, as_str(r[i])>> \in DOMAIN bt
                       /\ r[i] = BTreePhrase(bt, <<key, as_str(r[i])>>)}

\* the phrase keys of a full iteration
EntryKeys(es) == {<<es[i][1], as_str(es[i][2])>> : i \in 1..Len(es)}

\* C13: take, set and from_raw_parts leave the overlay and the tombstone set
\* as they were; after take the queries show the overlay and the tombstones
\* only, after set and from_raw_parts the merge of the new store with them.
C13_RebindingKeepsEdits ==
    [][(last'.op \in {"take", "set", "from_raw_parts"} /\ nops' = nops + 1) =>
          /\ btree' = btree
          /\ graveyard' = graveyard
          /\ last'.op = "take" =>
                 /\ store' = None
                 /\ EntryKeys(entries_iter(store', btree', graveyard')) = DOMAIN btree \ graveyard
                 /\ \A key \in SylKeys :
                        LET r == lookup_first_n_phrases(store', btree', graveyard', key, AllFirst)
                        IN  FromOverlay(r, btree, key) = 1..Len(r)
          /\ last'.op # "take" =>
                 /\ store' \in {Some(x) : x \in Stores}
                 /\ EntryKeys(entries_iter(store', btree', graveyard'))
                        = LiveKeys(store', btree, graveyard)
      ]_vars

\* a store has been detached from a dictionary that holds an overlay entry
\* and a tombstone
C13_Witness ==
    /\ last.op = "take"
    /\ store = None
    /\ nops = MaxOps
    /\ DOMAIN btree # {}
    /\ graveyard # {}
    /\ Len(entries_iter(store, btree, graveyard)) >= 1

----------------------------------------------------------------------------
(* C14 *)

\* where a text is first seen in a stream of phrases
FirstSeen(it, text) == SetMin({i \in 1..Len(it) : as_str(it[i]) = text})

\* the texts the attached store holds under key, valid and not tombstoned
StoreTexts(st, gy, key) ==
    {p.phrase : p \in StoreFound(st, key)} \ {k[2] : k \in {x \in gy : x[1] = key}}

\* C14: the result of lookup_first_n_phrases holds no text twice; its entries
\* are in the order in which their texts are first seen in the stream, the
\* store's before the overlay's and the overlay's by ascending text; for a
\* text of several sources the entry of highest frequency stays, the higher
\* last-used timestamp deciding between equal frequencies.
C14_LookupDedup ==
    \A key \in SylKeys :
        LET it == entries_iter_for(store, btree, graveyard, key)
            r == lookup_first_n_phrases(store, btree, graveyard, key, Len(it))
            inStore(i) == as_str(r[i]) \in StoreTexts(store, graveyard, key)
        IN  /\ {as_str(r[i]) : i \in 1..Len(r)} = {as_str(it[i]) : i \in 1..Len(it)}
            /\ \A i \in 1..Len(r), j \in 1..Len(r) :
                   i < j => /\ as_str(r[i]) # as_str(r[j])
                            /\ FirstSeen(it, as_str(r[i])) < FirstSeen(it, as_str(r[j]))
                            /\ inStore(j) => inStore(i)
                            /\ (~inStore(i) /\ ~inStore(j)) =>
                                   BytesCmp(as_str(r[i]), as_str(r[j])) < 0
            /\ \A i \in 1..Len(r) :
                   /\ \E x \in 1..Len(it) : it[x] = r[i]
                   /\ \A x \in 1..Len(it) :
                          as_str(it[x]) = as_str(r[i]) =>
                              \/ it[x].freq < r[i].freq
                              \/ /\ it[x].freq = r[i].freq
                                 /\ it[x].last_used[1] <= r[i].last_used[1]
            /\ \A n \in 0..MaxFirst :
                   lookup_first_n_phrases(store, btree, graveyard, key, n)
                       = SubSeq(r, 1, Min(n, Len(r)))

\* a key with a text that the store and the overlay both yield, the overlay's
\* entry of higher frequency, and another text after it
C14_Witness ==
    \E key \in SylKeys :
        LET it == entries_iter_for(store, btree, graveyard, key)
            r == lookup_first_n_phrases(store, btree, graveyard, key, Len(it))
        IN  /\ Len(r) >= 2
            /\ Len(it) > Len(r)
            /\ \E x \in 1..Len(it), y \in 1..Len(it) :
                   /\ x < y
                   /\ as_str(it[x]) = as_str(it[y])
                   /\ it[x].freq < it[y].freq
                   /\ r[1] = it[y]

----------------------------------------------------------------------------
(* C15 *)

\* C15: for every syllable key k the stream behind lookup_first_n_phrases(k, n)
\* and the duplicate check of add_phrase holds every overlay entry of syllable
\* key k that is not tombstoned, whatever its text, and no overlay entry of
\* another syllable key.
C15_WholeOverlayRange ==
    \A key \in SylKeys :
        LET it == entries_iter_for(None, btree, graveyard, key)
        IN  {it[i] : i \in 1..Len(it)}
                = {BTreePhrase(btree, k) : k \in {x \in DOMAIN btree \ graveyard : x[1] = key}}

----------------------------------------------------------------------------
(* C16 *)

\* the validity rule of a record: more than 12 bytes, the declared length
\* 13 + text-length within the slice, the text valid UTF-8
WellFormed(rec) ==
    /\ Len(rec) >= 13
    /\ 13 + rec[13] <= Len(rec)
    /\ Utf8Valid(SubSeq(rec, 14, 13 + rec[13]))

\* a store without its malformed records
RECURSIVE Strip(_)
Strip(kvs) ==
    IF kvs = <<>> THEN <<>>
    ELSE (IF WellFormed(kvs[1][2]) THEN <<kvs[1]>> ELSE <<>>) \o Strip(Tail(kvs))

\* C16: the malformed records of the store are as if they were not there: the
\* results of lookup_first_n_phrases and entries() and the duplicate check of
\* add_phrase are those of the store without them, so that they show in no
\* result, fail nothing and hide no valid record.
C16_MalformedAbsent ==
    store # None =>
        LET clean == Some(Strip(store[1]))
        IN  /\ \A rejects \in RejectTables :
                   entries(store, btree, graveyard, rejects)
                       = entries(clean, btree, graveyard, rejects)
            /\ \A key \in SylKeys :
                   /\ \A n \in 0..MaxFirst :
                          lookup_first_n_phrases(store, btree, graveyard, key, n)
                              = lookup_first_n_phrases(clean, btree, graveyard, key, n)
                   /\ \A t \in Texts :
                          LET p == [phrase |-> t, freq |-> 1, last_used |-> None]
                          IN  IsDuplicate(store, btree, graveyard, key, p)
                                  = IsDuplicate(clean, btree, graveyard, key, p)

\* a store with a malformed record under a key whose valid record a lookup
\* returns, and an overlay that is not empty
C16_Witness ==
    /\ store # None
    /\ DOMAIN btree # {}
    /\ \E i \in 1..Len(store[1]), j \in 1..Len(store[1]) :
           /\ ~WellFormed(store[1][i][2])
           /\ WellFormed(store[1][j][2])
           /\ store[1][i][1] = store[1][j][1]
           /\ store[1][i][1] \in SylKeys
           /\ \E x \in 1..Len(lookup_first_n_phrases(store, btree, graveyard,
                                                     store[1][i][1], AllFirst)) :
                  lookup_first_n_phrases(store, btree, graveyard, store[1][i][1], AllFirst)[x]
                      = PhraseFrom(store[1][j][2])

----------------------------------------------------------------------------
(* C17 *)

\* the phrases of the entries of entries() made from this syllable key
EntriesUnder(ks, key) ==
    {ks[i].phrase : i \in {j \in 1..Len(ks) : ks[j].key = key}}

\* C17: for every syllable key k, the entries lookup_first_n_phrases(k, n)
\* returns when n truncates nothing are the entries of entries() under k:
\* the same texts, each with the same frequency and last-used timestamp.
C17_LookupAgreesWithEntries ==
    \A key \in SylKeys, rejects \in RejectTables :
        LET it == entries_iter_for(store, btree, graveyard, key)
            r == lookup_first_n_phrases(store, btree, graveyard, key, Len(it))
            ks == Keyed(entries_iter(store, btree, graveyard),
                        entries(store, btree, graveyard, rejects))
        IN  {r[i] : i \in 1..Len(r)} = EntriesUnder(ks, key)

----------------------------------------------------------------------------
(* C18 *)

\* the entries of entries() made from this syllable key, in their order; it
\* is what entries_iter yields
RECURSIVE EntriesSeqUnder(_, _, _)
EntriesSeqUnder(it, rejects, key) ==
    IF it = <<>> THEN <<>>
    ELSE (IF it[1][1] = key THEN entries_map(<<it[1]>>, rejects) ELSE <<>>)
         \o EntriesSeqUnder(Tail(it), rejects, key)

\* C18: add_phrase, update_phrase and remove_phrase on syllable key k leave
\* lookup_first_n_phrases(k2, n) and the entries of entries() under k2 as they
\* were, for every syllable key k2 other than k.  (entries() is entries_map
\* over entries_iter: the iteration is run once for each state, the map once
\* for each table of rejected codes.)
C18_MutationsLocal ==
    [][(last'.op \in {"add_phrase", "update_phrase", "remove_phrase"} /\ nops' = nops + 1) =>
          \A k2 \in SylKeys \ {last'.key} :
              /\ \A n \in 0..MaxFirst :
                     lookup_first_n_phrases(store', btree', graveyard', k2, n)
                         = lookup_first_n_phrases(store, btree, graveyard, k2, n)
              /\ \A it0 \in {entries_iter(store, btree, graveyard)},
                    it1 \in {entries_iter(store', btree', graveyard')} :
                     \A rejects \in RejectTables :
                         EntriesSeqUnder(it1, rejects, k2) = EntriesSeqUnder(it0, rejects, k2)
      ]_vars

\* remove_phrase has been called on a key whose text another syllable key
\* holds in the overlay, and that entry is returned
C18_Witness ==
    /\ last.op = "remove_phrase"
    /\ \E k2 \in SylKeys \ {last.key} :
           /\ <<k2, last.text>> \in DOMAIN btree
           /\ CountText(lookup_first_n_phrases(store, btree, graveyard, k2, AllFirst),
                        last.text) = 1
           /\ \A rejects \in RejectTables :
                  CountEntry(Keyed(entries_iter(store, btree, graveyard),
                                   entries(store, btree, graveyard, rejects)),
                             k2, last.text) = 1

----------------------------------------------------------------------------
(* The phrase selector (editor/selection/phrase.rs).  Its loops are taken   *)
(* one iteration at a time: pc is "new" after PhraseSelector::new, "ready"  *)
(* after a call has returned, "panic" after a call has panicked, and the    *)
(* name of the loop while a call is inside it.                              *)

\* the longest composition buffer
MaxBuf == 3

\* A usize is written as its decimal numeral: the sequence of its digits, the
\* most significant first, without leading zeros.  usize::MAX of the 64-bit
\* target, 18446744073709551615, is beyond the integers TLC holds.
RECURSIVE usize(_)
usize(n) == IF n < 10 THEN <<n>> ELSE Append(usize(n \div 10), n % 10)

\* usize::MAX == 2^64 - 1 == 18446744073709551615
usize_MAX == <<1, 8, 4, 4, 6, 7, 4, 4, 0, 7, 3, 7, 0, 9, 5, 5, 1, 6, 1, 5>>

\* Ord of usize: the longer numeral is greater, equal lengths compare digit
\* by digit
usize_cmp(a, b) ==
    IF Len(a) # Len(b) THEN IntCmp(Len(a), Len(b)) ELSE BytesCmp(a, b)

usize_lt(a, b) == usize_cmp(a, b) < 0
usize_le(a, b) == usize_cmp(a, b) <= 0

\* the value of a numeral small enough to index a buffer
RECURSIVE as_int(_)
as_int(x) ==
    IF Len(x) = 1 THEN x[1] ELSE 10 * as_int(SubSeq(x, 1, Len(x) - 1)) + x[Len(x)]

\* a numeral without its leading zeros
RECURSIVE strip_zeros(_)
strip_zeros(x) == IF Len(x) > 1 /\ x[1] = 0 THEN strip_zeros(Tail(x)) ELSE x

\* the digits of x - 1, for x > 0
RECURSIVE borrow1(_)
borrow1(x) ==
    IF x[Len(x)] > 0 THEN [x EXCEPT ![Len(x)] = @ - 1]
    ELSE Append(borrow1(SubSeq(x, 1, Len(x) - 1)), 9)

\* the digits of x + 1
RECURSIVE carry1(_)
carry1(x) ==
    IF x = <<>> THEN <<1>>
    ELSE IF x[Len(x)] < 9 THEN [x EXCEPT ![Len(x)] = @ + 1]
    ELSE Append(carry1(SubSeq(x, 1, Len(x) - 1)), 0)

\* x - 1 on usize in a build without overflow checks: 0 wraps to usize::MAX
wrapping_sub1(x) == IF x = usize(0) THEN usize_MAX ELSE strip_zeros(borrow1(x))

\* x + 1 on usize in a build without overflow checks: usize::MAX wraps to 0
wrapping_add1(x) == IF x = usize_MAX THEN usize(0) ELSE carry1(x)

\* Symbol: a syllable or another character
Symbols == {"Syllable", "Char"}

\* Symbol::is_syllable
is_syllable(sym) == sym = "Syllable"

\* the composition buffers: Vec<Symbol> of length 0..MaxBuf
Buffers == UNION {[1..n -> Symbols] : n \in 0..MaxBuf}

\* Interval { start, end, .. }
Interval(start_, end_) == [start |-> start_, end |-> end_]

\* Composition::selections for a buffer of length n: none or one interval
SelectionsOf(n) ==
    {<<>>} \cup {<<Interval(usize(a), usize(b))>> : a \in 0..n, b \in 1..n}

\* Composition::breaks for a buffer of length n: none or one Break inside it
BreaksOf(n) == {<<>>} \cup {<<usize(b)>> : b \in 1..(n - 1)}

\* the dictionaries: the syllable slices for which lookup_phrase has a phrase
Dicts ==
    { {},
      {<<>>},
      {<<"Syllable">>},
      {<<"Syllable", "Syllable">>},
      {<<"Syllable">>, <<"Syllable", "Syllable">>, <<"Syllable", "Syllable", "Syllable">>},
      {<<"Char">>, <<"Syllable", "Char">>} }

\* Dictionary::lookup_phrase: the phrases of exactly these syllables
lookup_phrase(d, syllables) == IF syllables \in d THEN <<TxtA>> ELSE <<>>

\* std::cmp::min
min(a, b) == IF usize_le(a, b) THEN a ELSE b

\* Vec::len
vec_len(v) == usize(Len(v))

\* v[i] of a Vec, indexed from 0, where i < v.len()
at(v, i) == v[as_int(i) + 1]

\* &v[from..to], where from <= to <= v.len()
slice(v, from, to) == SubSeq(v, as_int(from) + 1, as_int(to))

\* slice::binary_search(..).is_ok() on a sorted Vec
binary_search_is_ok(v, x) == \E i \in 1..Len(v) : v[i] = x

\* what new() fixes for the life of the selector, and the build
config == <<forward_select, buffer, selections, breaks, dict, overflow_checks>>

\* no dictionary is under edit while the selector runs
NoDictionary ==
    /\ store = None
    /\ btree = EmptyMap
    /\ graveyard = {}
    /\ last = Last("new", <<>>, <<>>, 0, None, TRUE)
    /\ removed = {}
    /\ nops = 0

\* PhraseSelector::new(forward_select, com, dict)
new ==
    /\ forward_select \in BOOLEAN
    /\ buffer \in Buffers
    /\ selections \in SelectionsOf(Len(buffer))
    /\ breaks \in BreaksOf(Len(buffer))
    /\ dict \in Dicts
    /\ begin = usize(0)
    /\ end = vec_len(buffer)
    /\ pc = "new"
    /\ caller = "none"
    /\ cursor = usize(0)
    /\ overflow_checks \in BOOLEAN

InitSel == NoDictionary /\ new

\* PhraseSelector::init up to its loop: the window's fixed side is set and the
\* break point of the other side is asked for
init(cursor_) ==
    /\ pc \in {"new", "ready"}
    /\ IF forward_select
       THEN /\ begin' = cursor_
            /\ end' = end
            /\ pc' = "next_break_point"
       ELSE IF cursor_ = usize_MAX /\ overflow_checks
       THEN /\ pc' = "panic"
            /\ UNCHANGED <<begin, end>>
       ELSE /\ end' = min(wrapping_add1(cursor_), vec_len(buffer))
            /\ begin' = begin
            /\ pc' = "previous_break_point"
    /\ cursor' = cursor_
    /\ caller' = "init"
    /\ UNCHANGED <<config, kvvars>>

\* one iteration of the loop of next_break_point; on break the caller stores
\* the cursor in self.end and goes on to its slice
next_break_point ==
    /\ pc = "next_break_point"
    /\ IF vec_len(buffer) = cursor
       THEN /\ end' = cursor
            /\ pc' = IF caller = "init" THEN "init_loop" ELSE "next_loop"
            /\ cursor' = cursor
       ELSE IF usize_lt(vec_len(buffer), cursor)
       THEN /\ pc' = "panic"
            /\ UNCHANGED <<end, cursor>>
       ELSE /\ cursor' = IF is_syllable(at(buffer, cursor))
                         THEN wrapping_add1(cursor) ELSE cursor
            /\ UNCHANGED <<end, pc>>
    /\ UNCHANGED <<begin, caller, config, kvvars>>

\* one iteration of the loop of previous_break_point; on return or break the
\* caller stores the cursor in self.begin and goes on to its slice
previous_break_point ==
    /\ pc = "previous_break_point"
    /\ LET selection_ends == [i \in 1..Len(selections) |-> selections[i].end]
           c == IF vec_len(buffer) = cursor /\ cursor # usize(0)
                THEN wrapping_sub1(cursor) ELSE cursor
           back == IF caller = "init" THEN "init_loop" ELSE "next_loop"
       IN  IF cursor = usize(0)
           THEN /\ begin' = usize(0)
                /\ pc' = back
                /\ cursor' = cursor
           ELSE IF binary_search_is_ok(selection_ends, c) \/ binary_search_is_ok(breaks, c)
           THEN /\ begin' = c
                /\ pc' = back
                /\ cursor' = c
           ELSE IF ~usize_lt(c, vec_len(buffer))
           THEN /\ pc' = "panic"
                /\ UNCHANGED <<begin, cursor>>
           ELSE IF ~is_syllable(at(buffer, c))
           THEN /\ cursor' = c
                /\ UNCHANGED <<begin, pc>>
           ELSE IF c = usize(0) /\ overflow_checks
           THEN /\ pc' = "panic"
                /\ UNCHANGED <<begin, cursor>>
           ELSE /\ cursor' = wrapping_sub1(c)
                /\ UNCHANGED <<begin, pc>>
    /\ UNCHANGED <<end, caller, config, kvvars>>

\* one iteration of the loop of init: the slice, the lookup, and the step of
\* the window's moving side when the dictionary has no phrase
init_loop ==
    /\ pc = "init_loop"
    /\ IF usize_lt(end, begin) \/ usize_lt(vec_len(buffer), end)
       THEN /\ pc' = "panic"
            /\ UNCHANGED <<begin, end>>
       ELSE IF lookup_phrase(dict, slice(buffer, begin, end)) # <<>>
       THEN /\ pc' = "ready"
            /\ UNCHANGED <<begin, end>>
       ELSE IF forward_select
       THEN IF end = usize(0) /\ overflow_checks
            THEN /\ pc' = "panic"
                 /\ UNCHANGED <<begin, end>>
            ELSE /\ end' = wrapping_sub1(end)
                 /\ UNCHANGED <<begin, pc>>
       ELSE IF begin = usize_MAX /\ overflow_checks
            THEN /\ pc' = "panic"
                 /\ UNCHANGED <<begin, end>>
            ELSE /\ begin' = wrapping_add1(begin)
                 /\ UNCHANGED <<end, pc>>
    /\ UNCHANGED <<caller, cursor, config, kvvars>>

\* the head of the loop of next: the window's moving side steps, and when the
\* window has become empty the break point is asked for
next_advance ==
    IF forward_select
    THEN IF end = usize(0) /\ overflow_checks
         THEN /\ pc' = "panic"
              /\ UNCHANGED <<begin, end, cursor, caller>>
         ELSE /\ end' = wrapping_sub1(end)
              /\ begin' = begin
              /\ IF begin = wrapping_sub1(end)
                 THEN /\ pc' = "next_break_point"
                      /\ cursor' = begin
                      /\ caller' = "next"
                 ELSE /\ pc' = "next_loop"
                      /\ UNCHANGED <<cursor, caller>>
    ELSE IF begin = usize_MAX /\ overflow_checks
         THEN /\ pc' = "panic"
              /\ UNCHANGED <<begin, end, cursor, caller>>
         ELSE /\ begin' = wrapping_add1(begin)
              /\ end' = end
              /\ IF wrapping_add1(begin) = end
                 THEN /\ pc' = "previous_break_point"
                      /\ cursor' = wrapping_add1(begin)
                      /\ caller' = "next"
                 ELSE /\ pc' = "next_loop"
                      /\ UNCHANGED <<cursor, caller>>

\* PhraseSelector::next, called on a selector that init has set up
next ==
    /\ pc = "ready"
    /\ next_advance
    /\ UNCHANGED <<config, kvvars>>

\* the rest of an iteration of the loop of next: the slice and the lookup,
\* and the head of the following iteration when the dictionary has no phrase
next_loop ==
    /\ pc = "next_loop"
    /\ IF usize_lt(end, begin) \/ usize_lt(vec_len(buffer), end)
       THEN /\ pc' = "panic"
            /\ UNCHANGED <<begin, end, cursor, caller>>
       ELSE IF lookup_phrase(dict, slice(buffer, begin, end)) # <<>>
       THEN /\ pc' = "ready"
            /\ UNCHANGED <<begin, end, cursor, caller>>
       ELSE next_advance
    /\ UNCHANGED <<config, kvvars>>

InitStep == \E c \in 0..Len(buffer) : init(usize(c))

NextSel ==
    \/ InitStep
    \/ next_break_point
    \/ previous_break_point
    \/ init_loop
    \/ next
    \/ next_loop

SpecSel == InitSel /\ [][NextSel]_vars

----------------------------------------------------------------------------
(* C19 *)

\* a call of init or next is inside one of its loops
Running == pc \in {"next_break_point", "previous_break_point", "init_loop", "next_loop"}

\* C19: init(cursor) and next() terminate for every buffer and every cursor in
\* it: while a call is inside a loop, the iteration it is about to run changes
\* the state.  (These loops read nothing but the selector, so an iteration that
\* changes nothing is repeated for ever.)
C19_LoopsAdvance == Running => ENABLED <<NextSel>>_vars

----------------------------------------------------------------------------
(* C20 *)

\* C20: after new, init(cursor) with cursor <= buffer.len() and any number of
\* next(), 0 <= begin <= end <= buffer.len() holds wherever init and next
\* slice buffer[begin..end], forward and backward.
C20_ValidWindow ==
    pc \in {"init_loop", "next_loop"} =>
        /\ usize_le(usize(0), begin)
        /\ usize_le(begin, end)
        /\ usize_le(end, vec_len(buffer))

====
